---- MODULE Spec2Model ----
(***************************************************************************)
(* A model of balpy (src/balpy/balpy.py): the token reorderer and the      *)
(* batch-swap encoder, the allowance enforcement (single and batched) on   *)
(* top of the transaction builder and submitter, the bounded receipt poll  *)
(* and the rate-limited gas oracle client.                                 *)
(*                                                                         *)
(* Conventions.  Python lists are sequences; a Python index i is the       *)
(* sequence index i+1.  Python dicts are functions whose domain is the set *)
(* of keys.  Amounts in "standard" (human) units are carried in hundredths *)
(* (150 is 1.50 tokens) so that int(x * 10**decimals) truncates as it does *)
(* in the source.  A token address as the caller wrote it is a number      *)
(* ordered as Python orders the strings; toChecksumAddress maps it to the  *)
(* address it denotes (two spellings may denote one address).              *)
(***************************************************************************)
EXTENDS Integers, Sequences, FiniteSets, TLC

VARIABLES
    swapDescription,  \* the caller's batch-swap plan (a dict the caller owns)
    swapResult,       \* what the last reorder / encoder call saw and returned
    decimals,         \* balpy.decimals: the per-token decimals cache
    allowance,        \* chain: token.allowance(self.address, spender), raw units
    txCount,          \* chain: get_transaction_count(default_account)
    mempool,          \* chain: transactions broadcast and not yet mined
    receipts,         \* chain: hashes of the mined transactions
    now,              \* time.time(), in clock ticks
    lastEtherscanCallTime, \* instance attributes of that name (instance -> time)
    oracleCalls,      \* times at which the gas oracle was invoked
    pc,               \* where the calling context stands
    call,             \* the running (or last) call: inputs, locals, outcome
    callsLeft,        \* calls the caller may still start
    poll,             \* the running (or last) getTxReceipt call
    quote,            \* the last getGasPriceEtherscanGwei call
    build,            \* the running (or last) build-and-send of a caller
    submitted,        \* every transaction handed to send_raw_transaction, in order
    creation          \* the running (or last) balCreatePoolInFactory or
                      \* balRegisterPoolWithVault call

\* ------------------------------------------------------------------ bounds
MaxAssets == 3
MaxSwaps == 1
MaxBatch == 3
MaxCalls == 2
TicksPerInterval == 10
UintBits == 20
MaxSends == 2
MaxCreations == 1
MaxRetries == 3
MaxDelay == 2
MaxOversleep == 1
MaxLatency == 1
MaxOracleCalls == 3
Horizon == 12

\* ------------------------------------------------------------- collaborators
\* Token addresses as callers spell them, in Python's string order:
\* 1 = "0xAA..", 2 = "0xBB..", 3 = "0xaa.." (a second spelling of 1), and
\* for pools of three tokens 4 = "0xcc..".
RawAddrs == {1, 2, 3}

\* web3.toChecksumAddress: the address a spelling denotes (0xAA.. is 11,
\* 0xBB.. is 12, 0xCC.. is 13).
toChecksumAddress(t) == IF t = 2 THEN 12 ELSE IF t = 4 THEN 13 ELSE 11

\* token.functions.decimals().call(): fixed per on-chain token.
DecimalsOnChain(a) == IF a = 11 THEN 1 ELSE 2

RECURSIVE Pow10(_)
Pow10(d) == IF d = 0 THEN 1 ELSE 10 * Pow10(d - 1)

\* Python's int() of a float quotient: truncation toward zero.
TruncDiv(a, b) == IF a >= 0 THEN a \div b ELSE -((-a) \div b)

\* int(x * 10**decimals) for a standard amount x given in hundredths.
StdToRaw(c, d) == TruncDiv(c * Pow10(d), 100)

\* d[k] = v on a dict.
Put(d, k, v) == [x \in (DOMAIN d) \cup {k} |-> IF x = k THEN v ELSE d[x]]

\* erc20GetDecimals: the cached value, else the on-chain one.
erc20GetDecimals(cache, t) ==
    IF t \in DOMAIN cache THEN cache[t] ELSE DecimalsOnChain(toChecksumAddress(t))

\* The cache after erc20GetDecimals was called for the first n entries of ts.
RECURSIVE DecimalsCached(_, _, _)
DecimalsCached(cache, ts, n) ==
    IF n = 0 THEN cache
    ELSE LET c == DecimalsCached(cache, ts, n - 1)
         IN  Put(c, ts[n], erc20GetDecimals(c, ts[n]))

\* ------------------------------------------------------------ TokenReorderer
RECURSIVE SortedInsert(_, _)
SortedInsert(s, x) ==
    IF s = <<>> THEN <<x>>
    ELSE IF s[1] <= x THEN <<s[1]>> \o SortedInsert(Tail(s), x)
    ELSE <<x>> \o s

\* list.sort(): ascending, stable.
RECURSIVE ListSort(_)
ListSort(s) ==
    IF s = <<>> THEN s
    ELSE SortedInsert(ListSort(SubSeq(s, 1, Len(s) - 1)), s[Len(s)])

\* for i in range(len(tokens)): tokenAddressToIdx[tokens[i]] = i
RECURSIVE TokenAddressToIdx(_, _)
TokenAddressToIdx(tokens, n) ==
    IF n = 0 THEN <<>>
    ELSE Put(TokenAddressToIdx(tokens, n - 1), tokens[n], n - 1)

\* originalIdxToSortedIdx[i] = i: the caller's position kept as it is.
OriginalIdxToSortedIdx_Identity(sortedTokens, t2i, n) == [i \in 0..(n - 1) |-> i]

\* originalIdxToSortedIdx[tokenAddressToIdx[sortedTokens[i]]] = i
RECURSIVE OriginalIdxToSortedIdx(_, _, _)
OriginalIdxToSortedIdx(sortedTokens, t2i, n) ==
    IF n = 0 THEN <<>>
    ELSE Put(OriginalIdxToSortedIdx(sortedTokens, t2i, n - 1),
             t2i[sortedTokens[n]], n - 1)

\* sortedIdxToOriginalIdx[i] = i: the sorted position stored for itself.
SortedIdxToOriginalIdx_Identity(sortedTokens, t2i, n) == [i \in 0..(n - 1) |-> i]

\* sortedIdxToOriginalIdx[i] = tokenAddressToIdx[sortedTokens[i]]
RECURSIVE SortedIdxToOriginalIdx(_, _, _)
SortedIdxToOriginalIdx(sortedTokens, t2i, n) ==
    IF n = 0 THEN <<>>
    ELSE Put(SortedIdxToOriginalIdx(sortedTokens, t2i, n - 1),
             n - 1, t2i[sortedTokens[n]])

\* sortedTokens = tokens; sortedTokens.sort(): the same list object, so
\* the caller's list holds the sorted order afterwards (field tokens).
SortInPlace(tokens) == ListSort(tokens)

balReorderTokenDicts(tokens) ==
    LET t2i == TokenAddressToIdx(tokens, Len(tokens))
        sortedTokens == ListSort(tokens)
        n == Len(sortedTokens)
    IN  [sortedTokens |-> sortedTokens,
         originalIdxToSortedIdx |-> OriginalIdxToSortedIdx(sortedTokens, t2i, n),
         sortedIdxToOriginalIdx |-> SortedIdxToOriginalIdx(sortedTokens, t2i, n),
         tokens |-> SortInPlace(tokens)]

\* ---------------------------------------------------------- BatchSwapEncoder
\* The first sorted position whose limit lookup raises IndexError
\* (numTokens when none does): limits[sortedIdxToOriginalIdx[i]].
RECURSIVE FirstBadLimit(_, _, _, _)
FirstBadLimit(limits, s2o, i, numTokens) ==
    IF i = numTokens THEN numTokens
    ELSE IF s2o[i] >= Len(limits) THEN i
    ELSE FirstBadLimit(limits, s2o, i + 1, numTokens)

\* reorderedLimits with every limit scaled by the first sorted token's decimals.
ReorderedLimits_FirstDecimals(limits, r, cache) ==
    [k \in 1..Len(r.sortedTokens) |->
        StdToRaw(limits[r.sortedIdxToOriginalIdx[k - 1] + 1],
                 erc20GetDecimals(cache, r.sortedTokens[1]))]

\* reorderedLimits, lines 612-617.
ReorderedLimits(limits, r, cache) ==
    [k \in 1..Len(r.sortedTokens) |->
        StdToRaw(limits[r.sortedIdxToOriginalIdx[k - 1] + 1],
                 erc20GetDecimals(cache, r.sortedTokens[k]))]

\* One swapsTuple, lines 624-633.
SwapsTuple(swap, r, cache) ==
    LET idxSortedIn == r.originalIdxToSortedIdx[swap.assetInIndex]
        idxSortedOut == r.originalIdxToSortedIdx[swap.assetOutIndex]
    IN  [poolId |-> swap.poolId,
         assetInIndex |-> idxSortedIn,
         assetOutIndex |-> idxSortedOut,
         amount |-> StdToRaw(swap.amount,
                             erc20GetDecimals(cache, r.sortedTokens[idxSortedIn + 1]))]

\* The first swap whose index lookup raises KeyError (0 when none does).
RECURSIVE FirstBadSwap(_, _, _)
FirstBadSwap(swaps, o2s, k) ==
    IF k > Len(swaps) THEN 0
    ELSE IF swaps[k].assetInIndex \notin DOMAIN o2s
            \/ swaps[k].assetOutIndex \notin DOMAIN o2s THEN k
    ELSE FirstBadSwap(swaps, o2s, k + 1)

\* balCreateFnBatchSwap: the outcome, the built call (fn), the caller's
\* asset list and the decimals cache afterwards.
balCreateFnBatchSwap(desc, cache) ==
    LET r == balReorderTokenDicts(desc.assets)
        numTokens == Len(r.sortedTokens)
        badLimit == FirstBadLimit(desc.limits, r.sortedIdxToOriginalIdx, 0, numTokens)
        cache2 == DecimalsCached(cache, r.sortedTokens, badLimit)
        badSwap == FirstBadSwap(desc.swaps, r.originalIdxToSortedIdx, 1)
    IN  IF badLimit < numTokens
        THEN [outcome |-> "IndexError", fn |-> <<>>, reorder |-> r, decimals |-> cache2]
        ELSE IF badSwap > 0
        THEN [outcome |-> "KeyError", fn |-> <<>>, reorder |-> r, decimals |-> cache2]
        ELSE [outcome |-> "returned",
              fn |-> [name |-> "batchSwap",
                      kind |-> desc.kind,
                      swaps |-> [k \in 1..Len(desc.swaps) |->
                                    SwapsTuple(desc.swaps[k], r, cache2)],
                      assets |-> [k \in 1..numTokens |->
                                    toChecksumAddress(r.sortedTokens[k])],
                      limits |-> ReorderedLimits(desc.limits, r, cache2)],
              reorder |-> r,
              decimals |-> cache2]

\* ------------------------------------------------------------ GasOracleClient
\* lastEtherscanCallTime = 0, the class attribute (read while an instance
\* has no attribute of its own).
ClassLastEtherscanCallTime == 0

\* 1.0/etherscanMaxRate seconds (etherscanMaxRate = 5.0 Hz), in clock ticks:
\* a tick is 1/(etherscanMaxRate * TicksPerInterval) seconds.
MinInterval == TicksPerInterval

etherscanSpeedDict ==
    [slow |-> "SafeGasPrice", average |-> "ProposeGasPrice", fast |-> "FastGasPrice"]

\* The oracle's answer, when it gives one (Gwei).
OracleResult == [SafeGasPrice |-> 20, ProposeGasPrice |-> 25, FastGasPrice |-> 30]

CeilDiv(a, b) == (a + b - 1) \div b

\* self.lastEtherscanCallTime as Python resolves it: the instance's attribute,
\* else the class's.
ReadLastCallTime(last, self) ==
    IF self \in DOMAIN last THEN last[self] ELSE ClassLastEtherscanCallTime

\* time.sleep((1.0/etherscanMaxRate - dt) * 1.1): the ticks slept, at least
\* the time asked for.
BackoffTicks(dt, oversleep) ==
    IF dt < MinInterval THEN CeilDiv((MinInterval - dt) * 11, 10) + oversleep ELSE 0

\* Whether requests.get returns (it raises when the service is unreachable).
RequestReturns(resp) == resp # "unreachable"

\* The rest of getGasPriceEtherscanGwei once the backoff is over at t1; the
\* external call, if one is made, is made at t1 and answers at t2.
QuoteAfterBackoff(self, speed, last, oracle, t1, t2) ==
    IF speed \notin DOMAIN etherscanSpeedDict
    THEN [outcome |-> "returned", ret |-> 0, retIsFalse |-> TRUE, invoked |-> <<>>,
          now |-> t1, last |-> last]
    ELSE IF ~RequestReturns(oracle)
    THEN [outcome |-> "ConnectionError", ret |-> 0, retIsFalse |-> FALSE,
          invoked |-> <<t1>>, now |-> t2, last |-> last]
    ELSE IF oracle = "malformed"
    THEN [outcome |-> "KeyError", ret |-> 0, retIsFalse |-> FALSE,
          invoked |-> <<t1>>, now |-> t2, last |-> Put(last, self, t2)]
    ELSE [outcome |-> "returned", ret |-> OracleResult[etherscanSpeedDict[speed]],
          retIsFalse |-> FALSE, invoked |-> <<t1>>, now |-> t2,
          last |-> Put(last, self, t2)]

\* getGasPriceEtherscanGwei(speed) on instance self at time t, with what the
\* environment does: env.oversleep (ticks slept beyond the request),
\* env.latency (ticks the HTTP call takes), env.oracle (ok, unreachable,
\* malformed).  invoked holds the time of the external call, if one is made;
\* return(False) is ret 0 with retIsFalse.
getGasPriceEtherscanGwei(self, speed, t, last, env) ==
    QuoteAfterBackoff(self, speed, last, env.oracle,
        t + BackoffTicks(t - ReadLastCallTime(last, self), env.oversleep),
        t + BackoffTicks(t - ReadLastCallTime(last, self), env.oversleep) + env.latency)

\* --------------------------------------------------------- TransactionBuilder
NoOverride == -1

\* fn.estimateGas() when the node accepts the call.
EstimatedGas(fn) == 200

\* fn.buildTransaction({... 'gas', 'gasPrice', 'nonce'}), lines 176-180.
BuildTransaction(fn, nonce, gasEstimate, gasPriceGwei) ==
    [nonce |-> nonce, gas |-> gasEstimate, gasPriceGwei |-> gasPriceGwei, fn |-> fn]

\* The nonce buildTx uses, lines 151-154.
TxNonce(nonceOverride, count) == IF nonceOverride > -1 THEN nonceOverride ELSE count

\* The gas limit buildTx uses, lines 157-160.
TxGas(fn, gasFactor, gasEstimateOverride) ==
    IF gasEstimateOverride > -1 THEN gasEstimateOverride
    ELSE TruncDiv(EstimatedGas(fn) * gasFactor, 100)

\* networkParams[network]["id"] of mainnet and kovan (lines 55-56).
MainnetId == 1
KovanId == 42

\* chainIdNetwork of a balpy object: object 1 is on mainnet, any other on kovan.
ChainIdOf(self) == IF self = 1 THEN MainnetId ELSE KovanId

\* gasPriceGwei = 5, the value assigned off mainnet (line 167).
NonMainnetDefault == 5

\* The value of line 167 kept off mainnet, the quote used on mainnet only.
GasPriceGwei_DefaultKept(chainId, quoted) ==
    IF chainId # MainnetId THEN NonMainnetDefault ELSE quoted

\* gasPriceGwei without an override (lines 166-169): line 169 assigns the quote
\* on every network, over the value line 167 assigned off mainnet.
GasPriceGwei(chainId, quoted) == quoted

\* The value False that a failed validation hands on in place of a contract
\* call, and whether fn is a contract call (has estimateGas, buildTransaction).
FalseValue == [name |-> "False"]
IsContractCall(fn) == fn.name # "False"

\* buildTx from the quote q on: fn.buildTransaction needs a contract call,
\* and web3.toWei(False, 'gwei') rejects a bool.
BuildTxQuoted(chainId, fn, nonce, gasEstimate, nonceReads, gasEstimates, q) ==
    [outcome |-> IF q.outcome # "returned" THEN q.outcome
                 ELSE IF ~IsContractCall(fn) THEN "AttributeError"
                 ELSE IF q.retIsFalse THEN "TypeError" ELSE "built",
     tx |-> IF q.outcome = "returned" /\ ~q.retIsFalse /\ IsContractCall(fn)
            THEN <<BuildTransaction(fn, nonce, gasEstimate,
                                    GasPriceGwei(chainId, q.ret))>>
            ELSE <<>>,
     nonceReads |-> nonceReads, gasEstimates |-> gasEstimates,
     invoked |-> q.invoked, now |-> q.now, last |-> q.last]

\* buildTx.  gasFactor is in hundredths (105 is 1.05).  env.estimate says
\* whether estimateGas answers or rejects the call.
buildTx(self, fn, gasFactor, gasSpeed, nonceOverride, gasEstimateOverride, gasPriceGweiOverride, count, t, last, env) ==
    IF ~(gasEstimateOverride > -1) /\ ~IsContractCall(fn)
    THEN [outcome |-> "AttributeError", tx |-> <<>>,
          nonceReads |-> IF nonceOverride > -1 THEN 0 ELSE 1, gasEstimates |-> 0,
          invoked |-> <<>>, now |-> t, last |-> last]
    ELSE IF ~(gasEstimateOverride > -1) /\ env.estimate = "reverts"
    THEN [outcome |-> "EstimationError", tx |-> <<>>,
          nonceReads |-> IF nonceOverride > -1 THEN 0 ELSE 1, gasEstimates |-> 1,
          invoked |-> <<>>, now |-> t, last |-> last]
    ELSE IF gasPriceGweiOverride > -1
    THEN [outcome |-> IF IsContractCall(fn) THEN "built" ELSE "AttributeError",
          tx |-> IF IsContractCall(fn)
                 THEN <<BuildTransaction(fn, TxNonce(nonceOverride, count),
                                         TxGas(fn, gasFactor, gasEstimateOverride),
                                         gasPriceGweiOverride)>>
                 ELSE <<>>,
          nonceReads |-> IF nonceOverride > -1 THEN 0 ELSE 1,
          gasEstimates |-> IF gasEstimateOverride > -1 THEN 0 ELSE 1,
          invoked |-> <<>>, now |-> t, last |-> last]
    ELSE BuildTxQuoted(ChainIdOf(self), fn, TxNonce(nonceOverride, count),
                       TxGas(fn, gasFactor, gasEstimateOverride),
                       IF nonceOverride > -1 THEN 0 ELSE 1,
                       IF gasEstimateOverride > -1 THEN 0 ELSE 1,
                       getGasPriceEtherscanGwei(self, gasSpeed, t, last, env))

\* ------------------------------------------------------- TransactionSubmitter
\* The hash of a signed transaction (one per nonce and gas price of this
\* sender).
TxHash(tx) == 1000 + 100 * tx.nonce + tx.gasPriceGwei

\* A node replaces a pending transaction by one of the same nonce only when
\* the new one pays a gas price at least a tenth higher.
Replaces(tx, p) ==
    /\ tx.gasPriceGwei > p.gasPriceGwei
    /\ tx.gasPriceGwei * 10 >= p.gasPriceGwei * 11

\* send_raw_transaction: the node takes a transaction whose nonce is not used
\* up and is not that of a transaction it holds and keeps; else it raises.
NodeAccepts(tx, count, pool) ==
    /\ tx.nonce >= count
    /\ \A p \in pool : p.nonce = tx.nonce => Replaces(tx, p)

\* The node's pool once it has taken tx.
PoolAfter(tx, pool) == {p \in pool : p.nonce # tx.nonce} \cup {tx}

\* sendTx returning at once whatever isAsync says.
SendTxWaits_Never(isAsync) == FALSE

\* sendTx waits for the receipt unless isAsync (lines 190-191).
SendTxWaits(isAsync) == ~isAsync

\* ----------------------------------------------------------- AllowanceEnforcer
\* INFINITE = 2 ** 256 - 1, at the model's word width.
INFINITE == 2 ^ UintBits - 1

\* Sentinels of targetAllowance, as standard amounts in hundredths.
TargetNone == (-1) * 100
TargetInfinite == INFINITE * 100

\* allowance > amount: an allowance equal to the amount counts as too low.
erc20HasSufficientAllowance_Strict(raw, d, amount) == raw * 100 > amount * Pow10(d)

\* erc20HasSufficientAllowance: allowance * 10**(-decimals) >= amount, the
\* amount in hundredths.
erc20HasSufficientAllowance(raw, d, amount) == raw * 100 >= amount * Pow10(d)

\* An approval that asks for no allowance at all.
NewAllowance_Zero(targetAllowance, d) == 0

\* The explicit target taken as raw units, without the token's decimals.
NewAllowance_Unscaled(targetAllowance, d) ==
    IF targetAllowance = TargetNone \/ targetAllowance = TargetInfinite
    THEN INFINITE
    ELSE TruncDiv(targetAllowance, 100)

\* The allowance erc20EnforceSufficientAllowance asks for, lines 329-334.
NewAllowance(targetAllowance, d) ==
    IF targetAllowance = TargetNone \/ targetAllowance = TargetInfinite
    THEN INFINITE
    ELSE StdToRaw(targetAllowance, d)

\* erc20BuildFunctionSetAllowance: token.functions.approve(spender, allowance).
erc20BuildFunctionSetAllowance(tokenAddress, allowedAddress, newAllowance) ==
    [name |-> "approve", to |-> toChecksumAddress(tokenAddress),
     spender |-> allowedAddress, allowance |-> newAllowance]

\* The overrides erc20EnforceSufficientAllowance hands on to
\* erc20SignAndSendNewAllowance (line 336): the nonce override only.
ForwardedOverrides(nonceOverride, gasEstimateOverride, gasPriceGweiOverride) ==
    [nonce |-> nonceOverride, gasEstimate |-> NoOverride, gasPriceGwei |-> NoOverride]

\* erc20SignAndSendNewAllowance from the built transaction b on: sendTx
\* signs and broadcasts it (the wait, when isAsync is false, follows).
SignAndSend(fn, b, cache, count, pool, seen) ==
    [sufficient |-> FALSE, seen |-> seen, decimals |-> cache, approveCalls |-> <<fn>>,
     built |-> b.tx,
     sent |-> IF b.outcome = "built" /\ NodeAccepts(b.tx[1], count, pool)
              THEN b.tx ELSE <<>>,
     txHash |-> IF b.outcome = "built" /\ NodeAccepts(b.tx[1], count, pool)
                THEN <<TxHash(b.tx[1])>> ELSE <<>>,
     nonceReads |-> b.nonceReads, gasEstimates |-> b.gasEstimates,
     invoked |-> b.invoked, now |-> b.now, last |-> b.last,
     outcome |-> IF b.outcome # "built" THEN b.outcome
                 ELSE IF NodeAccepts(b.tx[1], count, pool) THEN "returned"
                 ELSE "ValueError"]

\* erc20EnforceSufficientAllowance with the token's decimals d at hand.
EnforceWithDecimals(self, tokenAddress, allowedAddress, targetAllowance, amount, gasFactor, gasSpeed, ov, env, d) ==
    IF erc20HasSufficientAllowance(
           allowance[<<toChecksumAddress(tokenAddress), allowedAddress>>], d, amount)
    THEN [sufficient |-> TRUE,
          seen |-> allowance[<<toChecksumAddress(tokenAddress), allowedAddress>>],
          decimals |-> Put(decimals, tokenAddress, d),
          approveCalls |-> <<>>, built |-> <<>>, sent |-> <<>>, txHash |-> <<>>,
          nonceReads |-> 0, gasEstimates |-> 0, invoked |-> <<>>, now |-> now,
          last |-> lastEtherscanCallTime, outcome |-> "returned"]
    ELSE SignAndSend(
             erc20BuildFunctionSetAllowance(tokenAddress, allowedAddress,
                                            NewAllowance(targetAllowance, d)),
             buildTx(self,
                     erc20BuildFunctionSetAllowance(tokenAddress, allowedAddress,
                                                    NewAllowance(targetAllowance, d)),
                     gasFactor, gasSpeed, ov.nonce, ov.gasEstimate, ov.gasPriceGwei,
                     txCount, now, lastEtherscanCallTime, env),
             Put(decimals, tokenAddress, d), txCount, mempool,
             allowance[<<toChecksumAddress(tokenAddress), allowedAddress>>])

\* erc20EnforceSufficientAllowance up to and including the broadcast of
\* sendTx (its wait for the receipt, when isAsync is false, follows).
erc20EnforceSufficientAllowance(self, tokenAddress, allowedAddress, targetAllowance, amount, gasFactor, gasSpeed, nonceOverride, gasEstimateOverride, gasPriceGweiOverride, env) ==
    EnforceWithDecimals(self, tokenAddress, allowedAddress, targetAllowance, amount,
        gasFactor, gasSpeed,
        ForwardedOverrides(nonceOverride, gasEstimateOverride, gasPriceGweiOverride),
        env, erc20GetDecimals(decimals, tokenAddress))

\* ERROR(self, text): the call prints when given the one argument the method
\* takes, and raises TypeError otherwise.
ERROR(nargs) == IF nargs = 1 THEN "printed" ELSE "TypeError"

\* --------------------------------------------------------- PoolFactorySelector
\* A pool description: its poolType, the keys of its token mapping in the
\* order the description lists them (tokens), the weights and the initial
\* balances of its tokens in hundredths (one per token, in the order of the
\* token mapping), its owner entry, and
\* whether the float sum of the weights comes out as their exact sum.
ZERO_ADDRESS == "0x0000"

\* balSortTokens: tokensIn.sort() on the spellings, then toChecksumAddress
\* of each, in that order.
balSortTokens(tokensIn) ==
    [tokens |-> ListSort(tokensIn),
     checksumTokens |-> [i \in 1..Len(tokensIn) |-> toChecksumAddress(ListSort(tokensIn)[i])]]

\* poolData["tokens"][t]: the place of the key t in the token mapping, whose
\* keys poolData.tokens lists in the order the description gives them.
KeyIndex(keys, t) == CHOOSE k \in 1..Len(keys) : keys[k] = t

\* [int(poolData["tokens"][t]["weight"] * 1e18) for t in tokens], in units
\* of 1e16.
IntWithDecimalsWeights(poolData, tokens) ==
    [i \in 1..Len(tokens) |-> poolData.weights[KeyIndex(poolData.tokens, tokens[i])]]

\* [poolDescription["tokens"][token]["initialBalance"] for token in
\* sortedTokens] (line 551).
InitialBalancesBySortedTokens(poolDescription, sortedTokens) ==
    [i \in 1..Len(sortedTokens) |->
        poolDescription.balances[KeyIndex(poolDescription.tokens, sortedTokens[i])]]

\* Owner entries: none, a well-formed address, a string of another length,
\* and a 42-character string that is no address.
OwnerValues == {"absent", "0xowner", "0xshort", "0xnotanaddress"}
OwnerLen(o) == IF o = "0xshort" THEN 7 ELSE 42
AddressLen == 42

\* web3.toChecksumAddress on an owner entry: the checksummed address, or
\* ValueError for a string that is no address.
OwnerChecksum(o) == IF o = "0xowner" THEN "0xOwner" ELSE "ValueError"

RECURSIVE SumSeq(_)
SumSeq(ws) == IF ws = <<>> THEN 0 ELSE ws[1] + SumSeq(Tail(ws))

\* balWeightsEqualOne: weightSum == 1.0 on the float sum, which is the exact
\* sum or, when rounding is "off", a neighbouring float.
balWeightsEqualOne(poolData) == SumSeq(poolData.weights) = 100 /\ poolData.rounding = "exact"

\* balSetOwner: the zero address without an owner entry, False (after
\* ERROR) for an entry whose length is not 42, else toChecksumAddress of it.
balSetOwner(poolData) ==
    IF poolData.owner = "absent" THEN [outcome |-> "returned", owner |-> ZERO_ADDRESS]
    ELSE IF OwnerLen(poolData.owner) # AddressLen
    THEN [outcome |-> IF ERROR(1) = "printed" THEN "returned" ELSE ERROR(1),
          owner |-> "False"]
    ELSE IF OwnerChecksum(poolData.owner) = "ValueError"
    THEN [outcome |-> "ValueError", owner |-> "none"]
    ELSE [outcome |-> "returned", owner |-> OwnerChecksum(poolData.owner)]

\* factory.functions.create(...) with any owner taken as it comes.
CreateEncodable_Any(owner) == TRUE

\* factory.functions.create(...): web3 matches the arguments against the
\* ABI and raises ValidationError for an owner that is no address.
CreateEncodable(owner) == owner \in {ZERO_ADDRESS, "0xOwner"}

\* The create call of a factory, from the owner resolution o on.
CreateFunction(factory, poolData, o) ==
    IF o.outcome # "returned"
    THEN [outcome |-> o.outcome, fn |-> FalseValue, created |-> FALSE]
    ELSE IF ~CreateEncodable(o.owner)
    THEN [outcome |-> "ValidationError", fn |-> FalseValue, created |-> FALSE]
    ELSE [outcome |-> "returned", created |-> TRUE,
          fn |-> [name |-> "create", factory |-> factory,
                  tokens |-> balSortTokens(poolData.tokens).checksumTokens,
                  weights |-> IF factory = "StablePoolFactory" THEN <<>>
                              ELSE IntWithDecimalsWeights(poolData,
                                       balSortTokens(poolData.tokens).tokens),
                  numTokens |-> Len(poolData.weights), owner |-> o.owner]]

\* return(False) after a failed check.
ReturnsFalse == [outcome |-> "returned", fn |-> FalseValue, created |-> FALSE]

\* The ERROR call of the two-token factory's token count check (line 465).
TokenCountErrorArgs == 3

balCreateFnWeightedPoolFactory(poolData) ==
    IF ~balWeightsEqualOne(poolData)
    THEN IF ERROR(1) = "printed" THEN ReturnsFalse
         ELSE [outcome |-> ERROR(1), fn |-> FalseValue, created |-> FALSE]
    ELSE CreateFunction("WeightedPoolFactory", poolData, balSetOwner(poolData))

balCreateFnWeightedPool2TokensFactory(poolData) ==
    IF Len(poolData.weights) # 2
    THEN IF ERROR(TokenCountErrorArgs) = "printed" THEN ReturnsFalse
         ELSE [outcome |-> ERROR(TokenCountErrorArgs), fn |-> FalseValue,
               created |-> FALSE]
    ELSE IF ~balWeightsEqualOne(poolData)
    THEN IF ERROR(1) = "printed" THEN ReturnsFalse
         ELSE [outcome |-> ERROR(1), fn |-> FalseValue, created |-> FALSE]
    ELSE CreateFunction("WeightedPool2TokensFactory", poolData, balSetOwner(poolData))

balCreateFnStablePoolFactory(poolData) ==
    CreateFunction("StablePoolFactory", poolData, balSetOwner(poolData))

\* balConvertTokensToWei: int(amounts[i] * 10**decimals) of tokens[i] for
\* every i, the decimals read through the cache; False after ERROR when the
\* two lists differ in length.
balConvertTokensToWei(tokens, amounts, cache) ==
    IF Len(tokens) # Len(amounts)
    THEN [outcome |-> IF ERROR(1) = "printed" THEN "returned" ELSE ERROR(1),
          isFalse |-> TRUE, rawTokens |-> <<>>, decimals |-> cache]
    ELSE [outcome |-> "returned", isFalse |-> FALSE,
          rawTokens |-> [i \in 1..Len(tokens) |->
                           StdToRaw(amounts[i],
                               erc20GetDecimals(DecimalsCached(cache, tokens, i - 1),
                                                tokens[i]))],
          decimals |-> DecimalsCached(cache, tokens, Len(tokens))]

\* JOIN_KIND_INIT (line 554).
JOIN_KIND_INIT == 0

\* balRegisterPoolWithVault up to its buildTx (lines 550-563): the joinPool
\* call on the sorted tokens and their raw initial balances.
JoinPoolFunction(poolDescription, cache) ==
    [decimals |-> balConvertTokensToWei(
                      balSortTokens(poolDescription.tokens).tokens,
                      InitialBalancesBySortedTokens(poolDescription,
                          balSortTokens(poolDescription.tokens).tokens),
                      cache).decimals,
     fn |-> [name |-> "joinPool",
             assets |-> balSortTokens(poolDescription.tokens).checksumTokens,
             maxAmountsIn |-> balConvertTokensToWei(
                      balSortTokens(poolDescription.tokens).tokens,
                      InitialBalancesBySortedTokens(poolDescription,
                          balSortTokens(poolDescription.tokens).tokens),
                      cache).rawTokens,
             joinKind |-> JOIN_KIND_INIT]]

\* The dispatch of balCreatePoolInFactory (lines 516-521); found is FALSE
\* when createFunction is still None.
CreateFn(poolDescription) ==
    IF poolDescription.poolType = "WeightedPool"
    THEN [found |-> TRUE, c |-> balCreateFnWeightedPoolFactory(poolDescription)]
    ELSE IF poolDescription.poolType = "WeightedPool2Tokens"
    THEN [found |-> TRUE, c |-> balCreateFnWeightedPool2TokensFactory(poolDescription)]
    ELSE IF poolDescription.poolType = "StablePool"
    THEN [found |-> TRUE, c |-> balCreateFnStablePoolFactory(poolDescription)]
    ELSE [found |-> FALSE, c |-> ReturnsFalse]

\* ------------------------------------------------------- the swap-side spec
SeqsUpTo(S, n) == UNION {[1..k -> S] : k \in 0..n}

\* Limits as callers write them (hundredths; negative: tokens out).
LimitPatterns == {<<-15, 25, 7, 140>>, <<25, -15, 140, 7>>}

SwapSteps ==
    [poolId : {7}, assetInIndex : 0..(MaxAssets - 1),
     assetOutIndex : 0..(MaxAssets - 1), amount : {125}]

SwapDescriptions ==
    {[kind |-> 0, assets |-> a, limits |-> SubSeq(p, 1, n), swaps |-> s] :
        <<a, p, n, s>> \in
            {<<a, p, n, s>> \in SeqsUpTo(RawAddrs, MaxAssets) \X LimitPatterns
                                \X (0..MaxAssets) \X SeqsUpTo(SwapSteps, MaxSwaps) :
                n \in {Len(a), Len(a) - 1}}}

NoResult == [op |-> "none"]

NoCall ==
    [op |-> "none", tokens |-> <<>>, spender |-> "VAULT", targets |-> <<>>,
     amounts |-> <<>>, isAsync |-> FALSE, nonceOverride |-> NoOverride,
     gasEstimateOverride |-> NoOverride, gasPriceGweiOverride |-> NoOverride,
     i |-> 0, nonce |-> 0, base |-> <<>>, nonceReads |-> 0, gasEstimates |-> 0,
     checks |-> <<>>, seen |-> <<>>, approveCalls |-> <<>>, built |-> <<>>, sent |-> <<>>,
     txHashes |-> <<>>, waited |-> <<>>, j |-> 0, issuedAtWait |-> <<>>,
     outcome |-> "none", ret |-> "none", previous |-> "none", invoked |-> <<>>]

Addrs == {toChecksumAddress(t) : t \in RawAddrs}
Spenders == {"VAULT", "OTHER"}

\* The account's transaction count when the process starts.
StartCount == 2

\* time.time() when the process starts: long after the epoch.
StartTime == 2 * TicksPerInterval

swapVars == <<swapDescription, swapResult>>
chainVars == <<allowance, txCount, mempool, receipts>>
clockVars == <<now, lastEtherscanCallTime, oracleCalls>>
callVars == <<pc, call, callsLeft>>
buildVars == <<build, submitted>>
sideVars == <<poll, quote, build, submitted, creation>>
vars == <<swapDescription, swapResult, decimals, allowance, txCount, mempool,
          receipts, now, lastEtherscanCallTime, oracleCalls, pc, call, callsLeft,
          poll, quote, build, submitted, creation>>

NoPoll == [op |-> "none", txHash |-> 0, delay |-> 0, maxRetries |-> 0, i |-> 0,
           lookups |-> 0, slept |-> 0, outcome |-> "none", ret |-> "none"]

NoQuote == [op |-> "none", self |-> 0, speed |-> "none", issuedAt |-> 0,
            invoked |-> <<>>, outcome |-> "none", ret |-> 0, retIsFalse |-> FALSE]

NoBuild ==
    [op |-> "none", self |-> 1, gasSpeed |-> "none", isAsync |-> FALSE,
     nonceOverride |-> NoOverride, gasEstimateOverride |-> NoOverride,
     gasPriceGweiOverride |-> NoOverride, estimate |-> "none", countAtBuild |-> 0,
     tx |-> <<>>, nonceReads |-> 0, gasEstimates |-> 0, invoked |-> <<>>,
     signed |-> 0, broadcasts |-> 0, lookups |-> 0, txHash |-> <<>>,
     outcome |-> "none", ret |-> "none"]

NoCreation == [op |-> "none"]

InitSideIdle ==
    /\ poll = NoPoll /\ quote = NoQuote
    /\ build = NoBuild /\ submitted = <<>>
    /\ creation = NoCreation

EmptySwap == [kind |-> 0, assets |-> <<>>, limits |-> <<>>, swaps |-> <<>>]

InitSwapIdle == swapDescription = EmptySwap /\ swapResult = NoResult

InitChainIdle ==
    /\ allowance = [k \in Addrs \X Spenders |-> 0]
    /\ txCount = 0
    /\ mempool = {}
    /\ receipts = {}

InitClock ==
    /\ now = StartTime
    /\ lastEtherscanCallTime = <<>>
    /\ oracleCalls = <<>>

InitCallIdle == pc = "idle" /\ call = NoCall /\ callsLeft = MaxCalls

InitSwap ==
    /\ swapDescription \in SwapDescriptions
    /\ swapResult = NoResult
    /\ decimals = <<>>
    /\ InitChainIdle /\ InitClock /\ InitCallIdle /\ InitSideIdle

\* A caller runs the reorderer on the plan's asset list.
ReorderCall ==
    /\ LET r == balReorderTokenDicts(swapDescription.assets)
       IN  /\ swapResult' = [op |-> "reorder", callerAssets |-> swapDescription.assets,
                             outcome |-> "returned", reorder |-> r]
           /\ swapDescription' = [swapDescription EXCEPT !.assets = r.tokens]
    /\ UNCHANGED <<decimals, chainVars, clockVars, callVars, sideVars>>

\* A caller runs the batch-swap encoder on the plan.
EncodeCall ==
    /\ LET e == balCreateFnBatchSwap(swapDescription, decimals)
       IN  /\ swapResult' = [op |-> "batchSwap", callerAssets |-> swapDescription.assets,
                             limits |-> swapDescription.limits,
                             swaps |-> swapDescription.swaps,
                             outcome |-> e.outcome, reorder |-> e.reorder, fn |-> e.fn]
           /\ swapDescription' = [swapDescription EXCEPT !.assets = e.reorder.tokens]
           /\ decimals' = e.decimals
    /\ UNCHANGED <<chainVars, clockVars, callVars, sideVars>>

NextSwap == ReorderCall \/ EncodeCall

SpecSwap == InitSwap /\ [][NextSwap]_vars

\* -------------------------------------------------- the allowance-side spec
AllowanceValues == {0, 15, INFINITE}
TargetValues == {TargetNone, TargetInfinite, 250}
AmountValues == {150, 300}
NonceOverrides == {NoOverride, 3}
GasOverrides == {NoOverride, 300}
Speeds == {"fast", "turbo"}
AllowTokens == {1, 2}
GasFactor == 105

\* What the environment may do during one enforcement: at most one of the
\* collaborators fails (the clock moves only by the rate limiter's sleep on
\* this side).
Envs == {e \in [estimate : {"ok", "reverts"},
                oracle : {"ok", "unreachable", "malformed"},
                oversleep : {0}, latency : {0}] :
            e.estimate = "ok" \/ e.oracle = "ok"}

TargetPatterns == {<<TargetNone, 400, TargetInfinite, TargetNone, 250>>}
AmountPatterns == {<<150, 300, 150, 300, 150>>}

\* The arguments of a single enforcement: the vault form with any token,
\* amount and target, and the general form and the overrides on one token.
SingleInputs ==
    {x \in [token : AllowTokens, spender : Spenders, target : TargetValues,
            amount : AmountValues, nonceOverride : NonceOverrides,
            gasEstimateOverride : GasOverrides, gasPriceGweiOverride : GasOverrides,
            isAsync : BOOLEAN] :
        \/ /\ x.spender = "VAULT" /\ x.nonceOverride = NoOverride
           /\ x.gasEstimateOverride = NoOverride /\ x.gasPriceGweiOverride = NoOverride
        \/ x.token = 1 /\ x.amount = 150 /\ x.target = 250 /\ x.isAsync}

\* The arguments of a batched enforcement: the three lists of equal length,
\* or one of them a longer or shorter one.
BatchInputs ==
    {[tokens |-> ts, targets |-> SubSeq(tp, 1, nt), amounts |-> SubSeq(ap, 1, na),
      nonceOverride |-> no] :
        <<ts, tp, ap, nt, na, no>> \in
            {<<ts, tp, ap, nt, na, no>> \in
                SeqsUpTo(AllowTokens, MaxBatch) \X TargetPatterns \X AmountPatterns
                    \X (0..(MaxBatch + 1)) \X (0..(MaxBatch + 1)) \X NonceOverrides :
                /\ <<nt - Len(ts), na - Len(ts)>> \in {<<0, 0>>, <<1, 0>>, <<0, -1>>, <<0, 1>>}
                /\ no # NoOverride => (nt = Len(ts) /\ na = Len(ts))}}

SingleInputsOf(c) ==
    [token |-> c.tokens[1], spender |-> c.spender, target |-> c.targets[1],
     amount |-> c.amounts[1], nonceOverride |-> c.nonceOverride,
     gasEstimateOverride |-> c.gasEstimateOverride,
     gasPriceGweiOverride |-> c.gasPriceGweiOverride, isAsync |-> c.isAsync]

BatchInputsOf(c) ==
    [tokens |-> c.tokens, targets |-> c.targets, amounts |-> c.amounts,
     nonceOverride |-> c.nonceOverride]

\* A caller's first call takes any arguments; a later call is a re-run of
\* the same call with the same arguments.
SingleArgs ==
    IF call.op = "none" THEN SingleInputs
    ELSE IF call.op = "single" THEN {SingleInputsOf(call)} ELSE {}

BatchArgs ==
    IF call.op = "none" THEN BatchInputs
    ELSE IF call.op = "batch" THEN {BatchInputsOf(call)} ELSE {}

SetOf(s) == {s[k] : k \in 1..Len(s)}
Last(s) == s[Len(s)]

InitAllow ==
    /\ InitSwapIdle
    /\ decimals = <<>>
    /\ allowance \in {f \in [Addrs \X Spenders -> AllowanceValues] :
                         \A a \in Addrs : f[<<a, "OTHER">>] = 0}
    /\ txCount = StartCount
    /\ mempool = {}
    /\ receipts = {}
    /\ InitClock
    /\ InitCallIdle
    /\ InitSideIdle

\* The effects of one enforcement e on the cache, the clock and the node.
Enforced(e) ==
    /\ decimals' = e.decimals
    /\ now' = e.now
    /\ lastEtherscanCallTime' = e.last
    /\ oracleCalls' = oracleCalls \o e.invoked
    /\ mempool' = IF e.sent = <<>> THEN mempool ELSE PoolAfter(e.sent[1], mempool)
    /\ UNCHANGED <<allowance, txCount, receipts, swapVars, sideVars>>

\* What the caller's last call c left behind when the next one starts:
\* "confirmed" when it returned and every approval it sent has a receipt.
PreviousRun(c) ==
    IF c.op = "none" THEN "none"
    ELSE IF c.outcome = "returned"
            /\ \A k \in 1..Len(c.sent) : TxHash(c.sent[k]) \in receipts
    THEN "confirmed"
    ELSE "partial"

\* The caller's record of a single enforcement x whose broadcast part gave e.
SingleRecord(x, e) ==
    [NoCall EXCEPT !.op = "single", !.previous = PreviousRun(call),
        !.tokens = <<x.token>>,
        !.spender = x.spender, !.targets = <<x.target>>,
        !.amounts = <<x.amount>>, !.isAsync = x.isAsync,
        !.nonceOverride = x.nonceOverride,
        !.gasEstimateOverride = x.gasEstimateOverride,
        !.gasPriceGweiOverride = x.gasPriceGweiOverride,
        !.i = 1, !.nonceReads = e.nonceReads, !.gasEstimates = e.gasEstimates,
        !.invoked = e.invoked,
        !.checks = <<e.sufficient>>, !.seen = <<e.seen>>,
        !.approveCalls = e.approveCalls,
        !.built = e.built, !.sent = e.sent, !.txHashes = e.txHash,
        !.waited = IF e.outcome = "returned" /\ SendTxWaits(x.isAsync)
                   THEN e.txHash ELSE <<>>,
        !.issuedAtWait = IF e.outcome = "returned" /\ SendTxWaits(x.isAsync)
                            /\ e.txHash # <<>>
                         THEN <<1>> ELSE <<>>,
        !.outcome = IF e.outcome # "returned" THEN e.outcome
                    ELSE IF e.txHash # <<>> /\ SendTxWaits(x.isAsync) THEN "running"
                    ELSE "returned",
        !.ret = IF e.outcome # "returned" THEN "none"
                ELSE IF e.txHash = <<>> THEN "None"
                ELSE IF SendTxWaits(x.isAsync) THEN "none" ELSE "txHash"]

SingleStep(x, e) ==
    /\ Enforced(e)
    /\ call' = SingleRecord(x, e)
    /\ pc' = IF e.outcome = "returned" /\ e.txHash # <<>> /\ SendTxWaits(x.isAsync)
             THEN "single_waiting" ELSE "idle"

\* erc20EnforceSufficientAllowance / erc20EnforceSufficientVaultAllowance,
\* called on its own, up to the broadcast (sendTx waits when isAsync is
\* false: WaitDone, WaitTimeout).
SingleCall ==
    /\ pc = "idle" /\ callsLeft > 0
    /\ \E x \in SingleArgs, speed \in Speeds, env \in Envs :
        SingleStep(x, erc20EnforceSufficientAllowance(1, x.token, x.spender, x.target,
                          x.amount, GasFactor, speed, x.nonceOverride,
                          x.gasEstimateOverride, x.gasPriceGweiOverride, env))
    /\ callsLeft' = callsLeft - 1

\* The batch's array check (line 356): tokens against targetAllowances.
LengthsMatch(tokens, targetAllowances, amounts) == Len(tokens) = Len(targetAllowances)

\* erc20AsyncEnforceSufficientVaultAllowances: the length check and the one
\* read of the transaction count.
BatchCall ==
    /\ pc = "idle" /\ callsLeft > 0
    /\ \E x \in BatchArgs :
        LET c == [NoCall EXCEPT !.op = "batch", !.previous = PreviousRun(call),
                     !.tokens = x.tokens,
                     !.targets = x.targets, !.amounts = x.amounts,
                     !.isAsync = TRUE, !.nonceOverride = x.nonceOverride]
        IN  IF ~LengthsMatch(x.tokens, x.targets, x.amounts)
            THEN /\ pc' = "idle"
                 /\ call' = IF ERROR(1) = "printed"
                            THEN [c EXCEPT !.outcome = "returned", !.ret = "False"]
                            ELSE [c EXCEPT !.outcome = ERROR(1)]
            ELSE /\ pc' = "batch_issue"
                 /\ call' = [c EXCEPT !.outcome = "running", !.nonce = txCount,
                                      !.base = <<txCount>>, !.nonceReads = 1]
    /\ callsLeft' = callsLeft - 1
    /\ UNCHANGED <<decimals, chainVars, clockVars, swapVars, sideVars>>

\* The nonce the batch hands to its next enforcement (line 367).
BatchNonceOverride(c) == c.nonce

\* isAsync left at sendTx's default: every approval is waited for in the loop.
BatchIsAsync_Default == FALSE

\* The isAsync the batch hands to each enforcement (line 367).
BatchIsAsync == TRUE

\* nonce += 1 on every turn, whether or not a transaction was produced.
BatchNextNonce_EveryTurn(nonce, hashes) == nonce + 1

\* The batch's nonce counter after an enforcement that returned hashes
\* (<<>> for None), lines 368-370.
BatchNextNonce(nonce, hashes) == IF hashes # <<>> THEN nonce + 1 ELSE nonce

\* The batch's record after the enforcement e of its turn i.
BatchRecord(c, e) ==
    [c EXCEPT !.checks = @ \o <<e.sufficient>>,
        !.seen = @ \o <<e.seen>>,
        !.approveCalls = @ \o e.approveCalls,
        !.built = @ \o e.built,
        !.sent = @ \o e.sent,
        !.nonceReads = @ + e.nonceReads,
        !.gasEstimates = @ + e.gasEstimates,
        !.invoked = @ \o e.invoked,
        !.outcome = IF e.outcome # "returned" THEN e.outcome ELSE @,
        !.txHashes = IF e.outcome = "returned" THEN @ \o e.txHash ELSE @,
        !.nonce = IF e.outcome = "returned" THEN BatchNextNonce(@, e.txHash) ELSE @,
        !.i = IF e.outcome = "returned" THEN @ + 1 ELSE @,
        !.waited = IF e.outcome = "returned" /\ SendTxWaits(BatchIsAsync)
                   THEN @ \o e.txHash ELSE @,
        !.issuedAtWait = IF e.outcome = "returned" /\ SendTxWaits(BatchIsAsync)
                            /\ e.txHash # <<>>
                         THEN @ \o <<c.i + 1>> ELSE @]

BatchStep(e) ==
    /\ Enforced(e)
    /\ call' = BatchRecord(call, e)
    /\ pc' = IF e.outcome # "returned" THEN "idle"
             ELSE IF e.txHash # <<>> /\ SendTxWaits(BatchIsAsync) THEN "send_waiting"
             ELSE "batch_issue"

\* One turn of the batch's loop (lines 363-370).
BatchIssue ==
    /\ pc = "batch_issue" /\ call.i < Len(call.tokens)
    /\ \E env \in Envs, speed \in Speeds :
        IF call.i >= Len(call.amounts)
        THEN /\ pc' = "idle"
             /\ call' = [call EXCEPT !.outcome = "IndexError"]
             /\ UNCHANGED <<decimals, chainVars, clockVars, swapVars, sideVars>>
        ELSE BatchStep(erc20EnforceSufficientAllowance(1, call.tokens[call.i + 1],
                           "VAULT", call.targets[call.i + 1], call.amounts[call.i + 1],
                           GasFactor, speed, BatchNonceOverride(call), NoOverride,
                           NoOverride, env))
    /\ UNCHANGED callsLeft

\* The hashes the batch waits on, in order (line 372).
BatchWaitList(c) == c.txHashes

\* The loop is over: on to the waits (line 372), or return(True).
BatchWaitNext ==
    /\ pc = "batch_issue" /\ call.i = Len(call.tokens)
    /\ IF call.j < Len(BatchWaitList(call))
       THEN /\ pc' = "batch_waiting"
            /\ call' = [call EXCEPT !.waited = @ \o <<BatchWaitList(call)[call.j + 1]>>,
                                    !.issuedAtWait = @ \o <<call.i>>]
       ELSE /\ pc' = "idle"
            /\ call' = [call EXCEPT !.outcome = "returned", !.ret = "True"]
    /\ UNCHANGED <<decimals, chainVars, clockVars, swapVars, callsLeft, sideVars>>

\* waitForTx: wait_for_transaction_receipt returns once the receipt exists.
WaitDone ==
    /\ pc \in {"single_waiting", "send_waiting", "batch_waiting"}
    /\ Last(call.waited) \in receipts
    /\ IF pc = "single_waiting"
       THEN pc' = "idle" /\ call' = [call EXCEPT !.outcome = "returned", !.ret = "txHash"]
       ELSE IF pc = "send_waiting"
       THEN pc' = "batch_issue" /\ UNCHANGED call
       ELSE pc' = "batch_issue" /\ call' = [call EXCEPT !.j = @ + 1]
    /\ UNCHANGED <<decimals, chainVars, clockVars, swapVars, callsLeft, sideVars>>

\* wait_for_transaction_receipt gives up (TimeExhausted) while there is none.
WaitTimeout ==
    /\ pc \in {"single_waiting", "send_waiting", "batch_waiting"}
    /\ Last(call.waited) \notin receipts
    /\ pc' = "idle"
    /\ call' = [call EXCEPT !.outcome = "TimeExhausted"]
    /\ UNCHANGED <<decimals, chainVars, clockVars, swapVars, callsLeft, sideVars>>

\* The chain mines the pending transaction whose nonce is due and runs its
\* approve.
Mine ==
    /\ \E tx \in mempool :
        /\ tx.nonce = txCount
        /\ allowance' = IF tx.fn.name = "approve"
                        THEN [allowance EXCEPT ![<<tx.fn.to, tx.fn.spender>>] =
                                                    tx.fn.allowance]
                        ELSE allowance
        /\ receipts' = receipts \cup {TxHash(tx)}
        /\ mempool' = mempool \ {tx}
    /\ txCount' = txCount + 1
    /\ UNCHANGED <<decimals, clockVars, swapVars, callVars, sideVars>>

NextAllow ==
    SingleCall \/ BatchCall \/ BatchIssue \/ BatchWaitNext \/ WaitDone \/ WaitTimeout \/ Mine

SpecAllow == InitAllow /\ [][NextAllow]_vars

\* ------------------------------------------------------- the receipt poll spec
\* The arguments self.ERROR is called with when the retries are used up
\* (line 210).
ExhaustedErrorArgs == 3

\* A hash no transaction of the chain has.
UnknownHash == 999

\* A transaction already broadcast when the poll starts.
PendingTx ==
    BuildTransaction(erc20BuildFunctionSetAllowance(1, "VAULT", INFINITE),
                     StartCount, 210, 30)

InitPoll ==
    /\ InitSwapIdle
    /\ decimals = <<>>
    /\ allowance = [k \in Addrs \X Spenders |-> 0]
    /\ txCount = StartCount
    /\ mempool = {PendingTx}
    /\ receipts = {}
    /\ InitClock
    /\ InitCallIdle
    /\ InitSideIdle

\* One turn more than maxRetries.
RetryAllowed_OneMore(i, maxRetries) == i <= maxRetries

\* for i in range(maxRetries): whether the loop has a turn i (line 201).
RetryAllowed(i, maxRetries) == i < maxRetries

\* getTxReceipt(txHash, delay, maxRetries) is called.
PollCall ==
    /\ pc = "idle" /\ callsLeft > 0
    /\ \E txHash \in {TxHash(PendingTx), UnknownHash}, delay \in 1..MaxDelay,
          maxRetries \in 0..MaxRetries :
        poll' = [NoPoll EXCEPT !.op = "getTxReceipt", !.txHash = txHash,
                               !.delay = delay, !.maxRetries = maxRetries,
                               !.outcome = "running"]
    /\ pc' = "polling"
    /\ callsLeft' = callsLeft - 1
    /\ UNCHANGED <<decimals, chainVars, clockVars, swapVars, call, quote, buildVars, creation>>

\* One turn of the loop (lines 201-209): the lookup returns the receipt, or
\* raises (no receipt yet, or a failure of the lookup itself) and the loop
\* sleeps for delay.
PollLookup ==
    /\ pc = "polling" /\ RetryAllowed(poll.i, poll.maxRetries)
    /\ \E answers \in BOOLEAN :
        IF answers /\ poll.txHash \in receipts
        THEN /\ poll' = [poll EXCEPT !.lookups = @ + 1, !.outcome = "returned",
                                     !.ret = "receipt"]
             /\ pc' = "idle"
             /\ UNCHANGED now
        ELSE /\ poll' = [poll EXCEPT !.lookups = @ + 1, !.i = @ + 1,
                                     !.slept = @ + poll.delay]
             /\ pc' = "polling"
             /\ now' = now + poll.delay
    /\ UNCHANGED <<decimals, chainVars, lastEtherscanCallTime, oracleCalls, swapVars,
                   call, callsLeft, quote, buildVars, creation>>

\* The retries are used up (lines 210-211): self.ERROR(...), then return(False).
PollExhausted ==
    /\ pc = "polling" /\ ~RetryAllowed(poll.i, poll.maxRetries)
    /\ poll' = IF ERROR(ExhaustedErrorArgs) = "printed"
               THEN [poll EXCEPT !.outcome = "returned", !.ret = "False"]
               ELSE [poll EXCEPT !.outcome = ERROR(ExhaustedErrorArgs)]
    /\ pc' = "idle"
    /\ UNCHANGED <<decimals, chainVars, clockVars, swapVars, call, callsLeft, quote,
                   buildVars, creation>>

NextPoll == PollCall \/ PollLookup \/ PollExhausted \/ Mine

SpecPoll == InitPoll /\ [][NextPoll]_vars

\* ---------------------------------------------------------- the gas oracle spec
\* The balpy objects of the process.
Instances == {1, 2}

GasEnvs == [estimate : {"ok"}, oracle : {"ok", "unreachable", "malformed"},
            oversleep : 0..MaxOversleep, latency : 0..MaxLatency]

InitGas ==
    /\ InitSwapIdle
    /\ decimals = <<>>
    /\ InitChainIdle
    /\ InitClock
    /\ InitCallIdle
    /\ InitSideIdle

QuoteStep(self, speed, q) ==
    /\ now' = q.now
    /\ lastEtherscanCallTime' = q.last
    /\ oracleCalls' = oracleCalls \o q.invoked
    /\ quote' = [op |-> "quote", self |-> self, speed |-> speed, issuedAt |-> now,
                 invoked |-> q.invoked, outcome |-> q.outcome, ret |-> q.ret,
                 retIsFalse |-> q.retIsFalse]

\* getGasPriceEtherscanGwei(speed) on one of the balpy objects.
Quote ==
    /\ Len(oracleCalls) < MaxOracleCalls
    /\ now < StartTime + Horizon
    /\ \E self \in Instances, speed \in Speeds, env \in GasEnvs :
        QuoteStep(self, speed,
                  getGasPriceEtherscanGwei(self, speed, now, lastEtherscanCallTime, env))
    /\ UNCHANGED <<decimals, chainVars, swapVars, callVars, poll, buildVars, creation>>

\* Time passes between calls.
Tick ==
    /\ now < StartTime + Horizon
    /\ now' = now + 1
    /\ UNCHANGED <<decimals, chainVars, swapVars, callVars, sideVars,
                   lastEtherscanCallTime, oracleCalls>>

NextGas == Quote \/ Tick

SpecGas == InitGas /\ [][NextGas]_vars

\* ------------------------------------------------- the build-and-send spec
\* The plan the caller swaps with.
CallerSwap ==
    [kind |-> 0, assets |-> <<1, 2>>, limits |-> <<25, -15>>,
     swaps |-> <<[poolId |-> 7, assetInIndex |-> 0, assetOutIndex |-> 1,
                  amount |-> 125]>>]

GasEstimateOverrides == {NoOverride, 0, 300}
GasPriceOverrides == {NoOverride, 0, 40}

\* The arguments of a balDoBatchSwap: no override, one of them, or all.
BuildInputs ==
    {x \in [gasSpeed : Speeds, isAsync : BOOLEAN, nonceOverride : NonceOverrides,
            gasEstimateOverride : GasEstimateOverrides,
            gasPriceGweiOverride : GasPriceOverrides] :
        /\ x.gasPriceGweiOverride # NoOverride => x.gasSpeed = "fast"
        /\ \/ Cardinality({o \in {x.nonceOverride, x.gasEstimateOverride,
                                   x.gasPriceGweiOverride} : o # NoOverride}) <= 1
           \/ /\ x.nonceOverride # NoOverride
              /\ x.gasEstimateOverride = 300 /\ x.gasPriceGweiOverride = 40}

InitBuild ==
    /\ InitSwapIdle
    /\ decimals = <<>>
    /\ allowance = [k \in Addrs \X Spenders |-> 0]
    /\ txCount = StartCount
    /\ mempool = {}
    /\ receipts = {}
    /\ InitClock
    /\ pc = "idle" /\ call = NoCall /\ callsLeft = MaxSends
    /\ poll = NoPoll /\ quote = NoQuote /\ creation = NoCreation
    /\ submitted = <<>>
    /\ build \in {[NoBuild EXCEPT !.self = i] : i \in Instances}

\* sendTx(tx, isAsync) up to its wait: sign_transaction, send_raw_transaction
\* (lines 184-185); the node takes the transaction or raises ValueError.
SendTxRecord(c, tx, isAsync, accepted) ==
    [c EXCEPT !.signed = @ + 1, !.broadcasts = @ + 1,
        !.txHash = IF accepted THEN <<TxHash(tx)>> ELSE <<>>,
        !.outcome = IF ~accepted THEN "ValueError"
                    ELSE IF SendTxWaits(isAsync) THEN "running" ELSE "returned",
        !.ret = IF accepted /\ ~SendTxWaits(isAsync) THEN "txHash" ELSE "none"]

\* The caller's record of a balDoBatchSwap x whose buildTx gave b.
BuildRecord(x, env, b) ==
    [NoBuild EXCEPT !.op = "balDoBatchSwap", !.self = build.self,
        !.gasSpeed = x.gasSpeed, !.isAsync = x.isAsync,
        !.nonceOverride = x.nonceOverride,
        !.gasEstimateOverride = x.gasEstimateOverride,
        !.gasPriceGweiOverride = x.gasPriceGweiOverride,
        !.estimate = env.estimate, !.countAtBuild = txCount, !.tx = b.tx,
        !.nonceReads = b.nonceReads, !.gasEstimates = b.gasEstimates,
        !.invoked = b.invoked, !.outcome = b.outcome]

BuildStep(x, env, b) ==
    /\ now' = b.now
    /\ lastEtherscanCallTime' = b.last
    /\ oracleCalls' = oracleCalls \o b.invoked
    /\ IF b.outcome # "built"
       THEN /\ build' = BuildRecord(x, env, b)
            /\ pc' = "idle"
            /\ UNCHANGED <<mempool, submitted>>
       ELSE /\ build' = SendTxRecord(BuildRecord(x, env, b), b.tx[1], x.isAsync,
                                     NodeAccepts(b.tx[1], txCount, mempool))
            /\ submitted' = Append(submitted,
                                [tx |-> b.tx[1], nonceOverride |-> x.nonceOverride,
                                 accepted |-> NodeAccepts(b.tx[1], txCount, mempool),
                                 pending |-> {p.nonce : p \in mempool}])
            /\ mempool' = IF NodeAccepts(b.tx[1], txCount, mempool)
                          THEN PoolAfter(b.tx[1], mempool) ELSE mempool
            /\ pc' = IF NodeAccepts(b.tx[1], txCount, mempool) /\ SendTxWaits(x.isAsync)
                     THEN "tx_waiting" ELSE "idle"

EncodedStep(x, env, enc) ==
    /\ decimals' = enc.decimals
    /\ BuildStep(x, env,
                 buildTx(build.self, enc.fn, GasFactor, x.gasSpeed, x.nonceOverride,
                         x.gasEstimateOverride, x.gasPriceGweiOverride, txCount, now,
                         lastEtherscanCallTime, env))

\* balDoBatchSwap (lines 601-605): the encoder, buildTx, and sendTx up to
\* its wait.
DoBatchSwap ==
    /\ pc = "idle" /\ callsLeft > 0
    /\ \E x \in BuildInputs, env \in Envs :
        EncodedStep(x, env, balCreateFnBatchSwap(CallerSwap, decimals))
    /\ callsLeft' = callsLeft - 1
    /\ UNCHANGED <<allowance, txCount, receipts, swapVars, call, poll, quote, creation>>

\* waitForTx inside sendTx: wait_for_transaction_receipt returns the receipt
\* it observed, and sendTx returns the hash.
TxWaitDone ==
    /\ pc = "tx_waiting"
    /\ build.txHash[1] \in receipts
    /\ build' = [build EXCEPT !.lookups = @ + 1, !.outcome = "returned", !.ret = "txHash"]
    /\ pc' = "idle"
    /\ UNCHANGED <<decimals, chainVars, clockVars, swapVars, call, callsLeft, poll, quote,
                   submitted, creation>>

\* wait_for_transaction_receipt gives up (TimeExhausted) while there is none.
TxWaitTimeout ==
    /\ pc = "tx_waiting"
    /\ build.txHash[1] \notin receipts
    /\ build' = [build EXCEPT !.lookups = @ + 1, !.outcome = "TimeExhausted"]
    /\ pc' = "idle"
    /\ UNCHANGED <<decimals, chainVars, clockVars, swapVars, call, callsLeft, poll, quote,
                   submitted, creation>>

NextBuild == DoBatchSwap \/ TxWaitDone \/ TxWaitTimeout \/ Mine

SpecBuild == InitBuild /\ [][NextBuild]_vars

\* ------------------------------------------------------ the pool creation spec
PoolTypes == {"WeightedPool", "WeightedPool2Tokens", "StablePool", "ManagedPool"}
WeightLists == {<<50, 50>>, <<50, 49>>, <<20, 30, 50>>, <<20, 30, 49>>, <<100>>}

\* The keys of a token mapping, as listed: in string order or not, and with
\* a lower-case spelling (3) that sorts after an upper-case one (2) of a
\* higher address.
TokenListings == {<<1>>, <<1, 2>>, <<2, 1>>, <<3, 2>>, <<4, 1, 2>>, <<2, 3, 4>>}
DefaultListings == {<<1>>, <<1, 2>>, <<4, 1, 2>>}
InitialBalances == <<150, 25, 7>>

\* Every pool type, weight list and owner entry on the default listing of
\* its length, and every listing on the descriptions with no owner entry.
PoolDescriptions ==
    {[poolType |-> x[1].poolType, weights |-> x[1].weights, owner |-> x[1].owner,
      rounding |-> x[1].rounding, tokens |-> x[2],
      balances |-> SubSeq(InitialBalances, 1, Len(x[2]))] :
        x \in {y \in [poolType : PoolTypes, weights : WeightLists, owner : OwnerValues,
                      rounding : {"exact", "off"}] \X TokenListings :
                 /\ y[1].rounding = "off" =>
                        SumSeq(y[1].weights) = 100 /\ Len(y[1].weights) = 3
                 /\ Len(y[2]) = Len(y[1].weights)
                 /\ (y[1].owner # "absent" \/ y[1].rounding # "exact") =>
                        y[2] \in DefaultListings}}

\* The descriptions pools are initialised from: only the token mapping
\* matters to balRegisterPoolWithVault.
JoinDescriptions ==
    {d \in PoolDescriptions :
        d.poolType = "WeightedPool" /\ d.owner = "absent" /\ d.rounding = "exact"}

\* The overrides of a balCreatePoolInFactory call: none, or all three.
CreateOverrides ==
    {[nonce |-> NoOverride, gasEstimate |-> NoOverride, gasPriceGwei |-> NoOverride],
     [nonce |-> NoOverride, gasEstimate |-> 300, gasPriceGwei |-> NoOverride],
     [nonce |-> 3, gasEstimate |-> 300, gasPriceGwei |-> 40]}

InitPool ==
    /\ InitSwapIdle
    /\ decimals = <<>>
    /\ allowance = [k \in Addrs \X Spenders |-> 0]
    /\ txCount = StartCount
    /\ mempool = {}
    /\ receipts = {}
    /\ InitClock
    /\ pc = "idle" /\ call = NoCall /\ callsLeft = MaxCreations
    /\ InitSideIdle

\* What a pool description fails validation on ("ok" when on nothing).
ValidationOf(d) ==
    IF d.poolType \notin {"WeightedPool", "WeightedPool2Tokens", "StablePool"}
    THEN "UnknownPoolType"
    ELSE IF d.poolType = "WeightedPool2Tokens" /\ Len(d.weights) # 2 THEN "tokenCount"
    ELSE IF SumSeq(d.weights) # 100 THEN "weights"
    ELSE "ok"

\* The caller's record of a creation whose dispatch gave r and whose buildTx,
\* if it came to one, gave b; the sendTx of line 533 waits for the receipt.
CreationRecord(d, ov, r, b, ran, accepted) ==
    [op |-> "create", description |-> d, overrides |-> ov, found |-> r.found,
     createOutcome |-> r.c.outcome, created |-> r.c.created, fn |-> r.c.fn,
     nonceReads |-> IF ran THEN b.nonceReads ELSE 0,
     gasEstimates |-> IF ran THEN b.gasEstimates ELSE 0,
     invoked |-> IF ran THEN b.invoked ELSE <<>>,
     tx |-> IF ran THEN b.tx ELSE <<>>,
     signed |-> IF ran /\ b.outcome = "built" THEN 1 ELSE 0,
     broadcasts |-> IF ran /\ b.outcome = "built" THEN 1 ELSE 0,
     txHash |-> IF accepted THEN <<TxHash(b.tx[1])>> ELSE <<>>,
     outcome |-> IF ~r.found THEN "returned"
                 ELSE IF r.c.outcome # "returned" THEN r.c.outcome
                 ELSE IF b.outcome # "built" THEN b.outcome
                 ELSE IF accepted THEN "running" ELSE "ValueError",
     ret |-> IF ~r.found THEN "False" ELSE "none"]

CreationStep(d, ov, r, b, ran) ==
    /\ creation' = CreationRecord(d, ov, r, b, ran,
                       ran /\ b.outcome = "built" /\ NodeAccepts(b.tx[1], txCount, mempool))
    /\ now' = IF ran THEN b.now ELSE now
    /\ lastEtherscanCallTime' = IF ran THEN b.last ELSE lastEtherscanCallTime
    /\ oracleCalls' = IF ran THEN oracleCalls \o b.invoked ELSE oracleCalls
    /\ mempool' = IF ran /\ b.outcome = "built" /\ NodeAccepts(b.tx[1], txCount, mempool)
                  THEN PoolAfter(b.tx[1], mempool) ELSE mempool
    /\ pc' = IF ran /\ b.outcome = "built" /\ NodeAccepts(b.tx[1], txCount, mempool)
             THEN "create_waiting" ELSE "idle"

DispatchedStep(d, ov, gasSpeed, env, r) ==
    CreationStep(d, ov, r,
        buildTx(1, r.c.fn, GasFactor, gasSpeed, ov.nonce, ov.gasEstimate, ov.gasPriceGwei,
                txCount, now, lastEtherscanCallTime, env),
        r.found /\ r.c.outcome = "returned")

\* balCreatePoolInFactory (lines 509-534) up to the wait of its sendTx.
CreatePool ==
    /\ pc = "idle" /\ callsLeft > 0
    /\ \E d \in PoolDescriptions, ov \in CreateOverrides, gasSpeed \in Speeds,
          env \in Envs :
        DispatchedStep(d, ov, gasSpeed, env, CreateFn(d))
    /\ callsLeft' = callsLeft - 1
    /\ UNCHANGED <<decimals, allowance, txCount, receipts, swapVars, call, poll, quote,
                   buildVars>>

\* The caller's record of a pool initialisation from d whose joinPool call
\* is j.fn and whose buildTx gave b; the sendTx of line 566 waits for the
\* receipt.
RegisterRecord(d, ov, j, b, accepted) ==
    [op |-> "join", description |-> d, overrides |-> ov, fn |-> j.fn,
     nonceReads |-> b.nonceReads, gasEstimates |-> b.gasEstimates,
     invoked |-> b.invoked, tx |-> b.tx,
     signed |-> IF b.outcome = "built" THEN 1 ELSE 0,
     broadcasts |-> IF b.outcome = "built" THEN 1 ELSE 0,
     txHash |-> IF accepted THEN <<TxHash(b.tx[1])>> ELSE <<>>,
     outcome |-> IF b.outcome # "built" THEN b.outcome
                 ELSE IF accepted THEN "running" ELSE "ValueError",
     ret |-> "none"]

RegisterStep(d, ov, j, b) ==
    /\ creation' = RegisterRecord(d, ov, j, b,
                       b.outcome = "built" /\ NodeAccepts(b.tx[1], txCount, mempool))
    /\ decimals' = j.decimals
    /\ now' = b.now
    /\ lastEtherscanCallTime' = b.last
    /\ oracleCalls' = oracleCalls \o b.invoked
    /\ mempool' = IF b.outcome = "built" /\ NodeAccepts(b.tx[1], txCount, mempool)
                  THEN PoolAfter(b.tx[1], mempool) ELSE mempool
    /\ pc' = IF b.outcome = "built" /\ NodeAccepts(b.tx[1], txCount, mempool)
             THEN "create_waiting" ELSE "idle"

JoinedStep(d, ov, gasSpeed, env, j) ==
    RegisterStep(d, ov, j,
        buildTx(1, j.fn, GasFactor, gasSpeed, ov.nonce, ov.gasEstimate, ov.gasPriceGwei,
                txCount, now, lastEtherscanCallTime, env))

\* balRegisterPoolWithVault (lines 548-567) up to the wait of its sendTx.
RegisterPool ==
    /\ pc = "idle" /\ callsLeft > 0
    /\ \E d \in JoinDescriptions, ov \in CreateOverrides, gasSpeed \in Speeds,
          env \in Envs :
        JoinedStep(d, ov, gasSpeed, env, JoinPoolFunction(d, decimals))
    /\ callsLeft' = callsLeft - 1
    /\ UNCHANGED <<allowance, txCount, receipts, swapVars, call, poll, quote, buildVars>>

CreateWaitDone ==
    /\ pc = "create_waiting"
    /\ creation.txHash[1] \in receipts
    /\ creation' = [creation EXCEPT !.outcome = "returned", !.ret = "txHash"]
    /\ pc' = "idle"
    /\ UNCHANGED <<decimals, chainVars, clockVars, swapVars, call, callsLeft, poll, quote,
                   buildVars>>

CreateWaitTimeout ==
    /\ pc = "create_waiting"
    /\ creation.txHash[1] \notin receipts
    /\ creation' = [creation EXCEPT !.outcome = "TimeExhausted"]
    /\ pc' = "idle"
    /\ UNCHANGED <<decimals, chainVars, clockVars, swapVars, call, callsLeft, poll, quote,
                   buildVars>>

NextPool ==
    CreatePool \/ RegisterPool \/ CreateWaitDone \/ CreateWaitTimeout \/ Mine

\* The poll's loop keeps running: nothing but its own sleep holds it up.
SpecPollLive == SpecPoll /\ WF_vars(PollLookup) /\ WF_vars(PollExhausted)

SpecPool == InitPool /\ [][NextPool]_vars

\* ------------------------------------------------------------------ claims
IsDistinct(s) == \A i, j \in 1..Len(s) : i # j => s[i] # s[j]

IsBijectionOn(f, n) ==
    /\ DOMAIN f = 0..(n - 1)
    /\ {f[i] : i \in DOMAIN f} = 0..(n - 1)

\* What the reorderer promises of (sorted, originalToSorted, sortedToOriginal)
\* for an input of length n.
ReorderContract(n, r) ==
    /\ Len(r.sortedTokens) = n
    /\ \A i \in 1..(n - 1) : r.sortedTokens[i] <= r.sortedTokens[i + 1]
    /\ IsBijectionOn(r.originalIdxToSortedIdx, n)
    /\ IsBijectionOn(r.sortedIdxToOriginalIdx, n)
    /\ \A i \in 0..(n - 1) :
          r.sortedIdxToOriginalIdx[r.originalIdxToSortedIdx[i]] = i

\* C3 as stated: for every address list, the sorted list is non-decreasing
\* and the two index maps are total bijections over [0, n) and mutual inverses.
C3_ReorderAnyList ==
    swapResult.op # "none" =>
        ReorderContract(Len(swapResult.callerAssets), swapResult.reorder)

\* C3 amended: the same, for every list of pairwise distinct addresses.
C3_ReorderDistinctList ==
    (swapResult.op # "none" /\ IsDistinct(swapResult.callerAssets)) =>
        ReorderContract(Len(swapResult.callerAssets), swapResult.reorder)

C3_Witness ==
    /\ swapResult.op = "reorder"
    /\ Len(swapResult.callerAssets) = 3
    /\ IsDistinct(swapResult.callerAssets)
    /\ swapResult.reorder.originalIdxToSortedIdx[0] = 2
    /\ swapResult.reorder.sortedIdxToOriginalIdx[0] = 1

\* C4: after the reorderer (or the encoder that calls it) returns, the
\* caller's asset list holds the same elements in the same order as before.
C4_CallerListUnchanged ==
    (swapResult.op # "none" /\ swapResult.outcome = "returned") =>
        swapDescription.assets = swapResult.callerAssets

\* C5: every emitted swap step's sorted in/out index resolves, through the
\* emitted asset list, to the address its original index resolved to in the
\* asset list the caller supplied.
C5_StepIndicesResolve ==
    (swapResult.op = "batchSwap" /\ swapResult.outcome = "returned") =>
        /\ Len(swapResult.fn.swaps) = Len(swapResult.swaps)
        /\ \A k \in 1..Len(swapResult.swaps) :
            LET orig == swapResult.swaps[k]
                out == swapResult.fn.swaps[k]
            IN  /\ out.assetInIndex \in 0..(Len(swapResult.fn.assets) - 1)
                /\ out.assetOutIndex \in 0..(Len(swapResult.fn.assets) - 1)
                /\ swapResult.fn.assets[out.assetInIndex + 1]
                     = toChecksumAddress(swapResult.callerAssets[orig.assetInIndex + 1])
                /\ swapResult.fn.assets[out.assetOutIndex + 1]
                     = toChecksumAddress(swapResult.callerAssets[orig.assetOutIndex + 1])
                /\ swapResult.reorder.sortedTokens[out.assetInIndex + 1]
                     = swapResult.callerAssets[orig.assetInIndex + 1]
                /\ swapResult.reorder.sortedTokens[out.assetOutIndex + 1]
                     = swapResult.callerAssets[orig.assetOutIndex + 1]

C5_Witness ==
    /\ swapResult.op = "batchSwap"
    /\ swapResult.outcome = "returned"
    /\ Len(swapResult.swaps) = 1
    /\ swapResult.swaps[1].assetInIndex = 0
    /\ swapResult.swaps[1].assetOutIndex = 2
    /\ swapResult.fn.swaps[1].assetInIndex = 2
    /\ swapResult.fn.swaps[1].assetOutIndex = 1

\* C6: the emitted limit list has one entry per asset, and the entry at
\* sorted position i is the caller's limit for the token that ends up at
\* position i, in raw units of that token's decimals.
C6_LimitsFollowTokens ==
    (swapResult.op = "batchSwap" /\ swapResult.outcome = "returned") =>
        /\ Len(swapResult.fn.limits) = Len(swapResult.fn.assets)
        /\ Len(swapResult.fn.limits) = Len(swapResult.callerAssets)
        /\ \A i \in 1..Len(swapResult.fn.limits) :
            LET o == swapResult.reorder.sortedIdxToOriginalIdx[i - 1]
            IN  /\ toChecksumAddress(swapResult.callerAssets[o + 1])
                     = swapResult.fn.assets[i]
                /\ swapResult.fn.limits[i]
                     = TruncDiv(swapResult.limits[o + 1]
                                  * Pow10(DecimalsOnChain(swapResult.fn.assets[i])), 100)

C6_Witness ==
    /\ swapResult.op = "batchSwap"
    /\ swapResult.outcome = "returned"
    /\ swapResult.callerAssets = <<3, 1, 2>>
    /\ swapResult.limits = <<-15, 25, 7>>
    /\ swapResult.fn.assets = <<11, 12, 11>>
    /\ swapResult.fn.limits = <<2, 7, -1>>

Count(s, v) == Cardinality({k \in 1..Len(s) : s[k] = v})

\* C1: in a batch, the produced approval transactions carry the nonces base,
\* base+1, ... in submission order, base being the transaction count read
\* once at the start; an operation whose allowance suffices consumes none,
\* so K transactions come of the K insufficient operations, without gap or
\* duplicate.
C1_BatchNoncesConsecutive ==
    (call.op = "batch" /\ call.base # <<>>) =>
        /\ call.nonceReads = 1
        /\ \A k \in 1..Len(call.sent) : call.sent[k].nonce = call.base[1] + k - 1
        /\ Len(call.sent) <= Count(call.checks, FALSE)
        /\ call.outcome \in {"running", "returned"} =>
              Len(call.sent) = Count(call.checks, FALSE)
        /\ (call.outcome = "returned" /\ call.ret = "True") =>
              /\ Len(call.checks) = Len(call.tokens)
              /\ call.nonce = call.base[1] + Count(call.checks, FALSE)

C1_Witness ==
    /\ call.op = "batch" /\ call.outcome = "returned" /\ call.ret = "True"
    /\ call.checks = <<FALSE, TRUE, FALSE>>
    /\ call.base = <<StartCount>>
    /\ Len(call.sent) = 2
    /\ call.sent[2].nonce = StartCount + 1

\* C2: in a batch no wait for a receipt starts before all N operations have
\* been issued; afterwards every produced approval is waited for exactly
\* once, in submission order, and the call returns only when all of them
\* are confirmed.
C2_BatchWaitsAfterIssue ==
    call.op = "batch" =>
        /\ \A k \in 1..Len(call.issuedAtWait) : call.issuedAtWait[k] = Len(call.tokens)
        /\ Len(call.waited) <= Len(call.sent)
        /\ \A k \in 1..Len(call.waited) : call.waited[k] = TxHash(call.sent[k])
        /\ (call.outcome = "returned" /\ call.ret = "True") =>
              /\ Len(call.waited) = Len(call.sent)
              /\ \A k \in 1..Len(call.sent) : TxHash(call.sent[k]) \in receipts

C2_Witness ==
    /\ call.op = "batch" /\ call.outcome = "returned" /\ call.ret = "True"
    /\ Len(call.sent) = 2
    /\ Len(call.waited) = 2

\* C7: a single enforcement whose allowance is at least the required amount
\* produces no approval call and sends nothing; one whose allowance is lower,
\* with no explicit target, produces exactly one approval call, for 2^256-1.
C7_SingleEnforcement ==
    call.op = "single" =>
        LET need == call.amounts[1]
                      * Pow10(DecimalsOnChain(toChecksumAddress(call.tokens[1])))
        IN  /\ call.seen[1] * 100 >= need =>
                  /\ call.approveCalls = <<>>
                  /\ call.built = <<>>
                  /\ call.sent = <<>>
                  /\ call.outcome = "returned" /\ call.ret = "None"
            /\ (call.seen[1] * 100 < need /\ call.targets[1] = TargetNone) =>
                  /\ Len(call.approveCalls) = 1
                  /\ call.approveCalls[1].allowance = INFINITE
                  /\ Len(call.sent) <= 1
                  /\ \A k \in 1..Len(call.sent) : call.sent[k].fn = call.approveCalls[1]

C7_Witness ==
    /\ call.op = "single" /\ call.outcome = "returned" /\ call.ret = "txHash"
    /\ call.seen = <<0>>
    /\ call.targets = <<TargetNone>>
    /\ Len(call.sent) = 1
    /\ call.sent[1].fn.allowance = INFINITE

\* C8: a batch whose token array and required-amount array differ in length
\* ends with the length-mismatch outcome, having read no nonce and sent no
\* transaction.
C8_AmountLengthMismatchRejected ==
    (call.op = "batch" /\ Len(call.tokens) # Len(call.amounts)) =>
        /\ call.outcome = "returned" /\ call.ret = "False"
        /\ call.nonceReads = 0
        /\ call.sent = <<>>

\* C9: a getTxReceipt that uses up its retries without a receipt returns the
\* timeout outcome (False) to its caller and ends with no other error.
C9_ExhaustedPollReturnsTimeout ==
    (poll.op = "getTxReceipt" /\ poll.outcome # "running" /\ poll.ret # "receipt") =>
        poll.outcome = "returned" /\ poll.ret = "False"

\* C10: a quote issued less than the minimum interval after the previous
\* oracle call invokes the oracle no sooner than (interval - elapsed) later;
\* so no two oracle invocations of the process are closer than the interval.
C10_OracleCallsSpaced ==
    /\ \A k \in 2..Len(oracleCalls) : oracleCalls[k] - oracleCalls[k - 1] >= MinInterval
    /\ (quote.invoked # <<>> /\ Len(oracleCalls) >= 2) =>
          LET elapsed == quote.issuedAt - oracleCalls[Len(oracleCalls) - 1]
          IN  elapsed < MinInterval =>
                  quote.invoked[1] - quote.issuedAt >= MinInterval - elapsed

\* C11: every quote that reaches the external call leaves the last-call
\* timestamp at or after that call, whether the call succeeded, was
\* unreachable or answered with a malformed payload.
C11_TimestampAfterEveryCall ==
    (quote.op = "quote" /\ quote.invoked # <<>>) =>
        /\ quote.self \in DOMAIN lastEtherscanCallTime
        /\ lastEtherscanCallTime[quote.self] >= quote.invoked[1]

\* C12: a quote asked with a speed outside slow, average, fast does not
\* invoke the oracle and stops the build that asked for it; and every
\* transaction that is built has a positive gas price.
C12_BuiltPricePositive ==
    /\ (build.op = "balDoBatchSwap" /\ build.gasPriceGweiOverride = NoOverride
          /\ build.gasSpeed \notin DOMAIN etherscanSpeedDict) =>
            build.invoked = <<>> /\ build.tx = <<>> /\ build.outcome # "returned"
    /\ \A k \in 1..Len(build.tx) : build.tx[k].gasPriceGwei > 0
    /\ \A k \in 1..Len(submitted) : submitted[k].tx.gasPriceGwei > 0

\* C15: in a built transaction an override is used as given and its source
\* is not consulted; without one the nonce is the transaction count read at
\* build time, the gas limit floor(estimatedGas * gasFactor), and the gas
\* price the oracle's quote for the speed, on mainnet and off it.
C15_BuildFieldsResolved ==
    (build.op = "balDoBatchSwap" /\ build.tx # <<>>) =>
        /\ IF build.nonceOverride > -1
           THEN build.tx[1].nonce = build.nonceOverride /\ build.nonceReads = 0
           ELSE build.tx[1].nonce = build.countAtBuild /\ build.nonceReads = 1
        /\ IF build.gasEstimateOverride > -1
           THEN build.tx[1].gas = build.gasEstimateOverride /\ build.gasEstimates = 0
           ELSE /\ build.tx[1].gas * 100 <= EstimatedGas(build.tx[1].fn) * GasFactor
                /\ (build.tx[1].gas + 1) * 100 > EstimatedGas(build.tx[1].fn) * GasFactor
                /\ build.gasEstimates = 1
        /\ IF build.gasPriceGweiOverride > -1
           THEN build.tx[1].gasPriceGwei = build.gasPriceGweiOverride
                /\ build.invoked = <<>>
           ELSE /\ build.gasSpeed \in DOMAIN etherscanSpeedDict
                /\ build.tx[1].gasPriceGwei = OracleResult[etherscanSpeedDict[build.gasSpeed]]
                /\ Len(build.invoked) = 1

C15_Witness ==
    /\ build.op = "balDoBatchSwap" /\ build.tx # <<>>
    /\ ChainIdOf(build.self) = KovanId
    /\ build.nonceOverride = NoOverride /\ build.gasEstimateOverride = NoOverride
    /\ build.gasPriceGweiOverride = NoOverride
    /\ build.tx[1].nonce = StartCount
    /\ build.tx[1].gasPriceGwei = 30
    /\ Len(submitted) = 2
    /\ submitted[1].tx.gas = 300 /\ submitted[1].tx.gasPriceGwei = 40
    /\ submitted[1].tx.nonce = 3

\* C16: in a sequence of transactions built and sent without a nonce
\* override, every transaction's nonce is greater than the nonce of every
\* transaction sent before it, pending ones included.
C16_SentNoncesIncrease ==
    (\A k \in 1..Len(submitted) : submitted[k].nonceOverride = NoOverride) =>
        \A i, j \in 1..Len(submitted) :
            i < j => submitted[j].tx.nonce > submitted[i].tx.nonce

\* C17: sendTx signs and broadcasts the transaction once and returns its
\* hash; with isAsync false it returns only after a receipt for the hash
\* was observed, with isAsync true it returns without any receipt lookup.
C17_SendOnceThenWait ==
    (build.op = "balDoBatchSwap" /\ build.tx # <<>>) =>
        /\ build.signed = 1 /\ build.broadcasts = 1
        /\ build.outcome = "running" => ~build.isAsync /\ pc = "tx_waiting"
        /\ build.outcome = "returned" =>
              /\ build.ret = "txHash"
              /\ build.txHash = <<TxHash(build.tx[1])>>
              /\ IF build.isAsync THEN build.lookups = 0
                 ELSE build.lookups = 1 /\ build.txHash[1] \in receipts

C17_Witness ==
    /\ build.op = "balDoBatchSwap" /\ build.outcome = "returned"
    /\ ~build.isAsync
    /\ build.txHash # <<>> /\ build.txHash[1] \in receipts
    /\ Len(submitted) = 2
    /\ submitted[1].accepted /\ submitted[1].nonceOverride = NoOverride
    /\ TxHash(submitted[1].tx) \notin receipts

\* C13: pool creation produces a create call only for weights that sum to
\* 1.0 and, with the two-token factory, only for exactly two tokens; a
\* description of a known pool type whose weights do not sum to 1.0 is
\* rejected with the validation outcome.
C13_CreateOnlyValidated ==
    (creation.op = "create" /\ creation.found) =>
        /\ creation.created =>
              /\ SumSeq(creation.description.weights) = 100
              /\ creation.description.poolType = "WeightedPool2Tokens" =>
                    Len(creation.description.weights) = 2
        /\ ValidationOf(creation.description) = "weights" =>
              ~creation.created /\ creation.createOutcome = "returned"
        /\ ValidationOf(creation.description) = "tokenCount" => ~creation.created

\* C14: a creation whose description fails validation (weights, token count
\* of the two-token factory, unknown pool type) ends with the validation
\* outcome before any network interaction: no nonce read, no gas estimate,
\* no oracle call, nothing signed or broadcast.
C14_ValidationBeforeNetwork ==
    (creation.op = "create" /\ ValidationOf(creation.description) # "ok") =>
        /\ creation.nonceReads = 0 /\ creation.gasEstimates = 0
        /\ creation.invoked = <<>>
        /\ creation.signed = 0 /\ creation.broadcasts = 0
        /\ creation.outcome = "returned" /\ creation.ret = "False"

Covers(t, a) == t = TargetNone \/ t = TargetInfinite \/ t >= a

\* Every target given for a token covers every amount required of it.
TargetsCover(c) ==
    \A i, k \in 1..Len(c.tokens) :
        (i <= Len(c.targets) /\ k <= Len(c.amounts)
           /\ toChecksumAddress(c.tokens[i]) = toChecksumAddress(c.tokens[k])) =>
              Covers(c.targets[i], c.amounts[k])

\* Every operation of the run was decided on the allowance it saw, and only
\* those that saw too little produced an approval.
ActsOnDeficitsOnly(c) ==
    /\ Len(c.approveCalls) <= Count(c.checks, FALSE)
    /\ \A k \in 1..Len(c.checks) :
          c.checks[k] <=>
              c.seen[k] * 100 >=
                  c.amounts[k] * Pow10(DecimalsOnChain(toChecksumAddress(c.tokens[k])))

PollWithinBudget ==
    poll.op = "getTxReceipt" =>
        /\ poll.lookups <= poll.maxRetries
        /\ poll.slept = poll.delay * poll.i
        /\ poll.lookups = poll.i + (IF poll.ret = "receipt" THEN 1 ELSE 0)
        /\ poll.ret = "receipt" =>
              /\ poll.txHash \in receipts
              /\ poll.outcome = "returned" /\ pc # "polling"
        /\ (poll.outcome # "running" /\ poll.ret # "receipt") => poll.i = poll.maxRetries

\* C20: getTxReceipt makes at most maxRetries lookups, sleeps delay after
\* each failed one, takes any failed lookup as not found yet, returns the
\* receipt of the first lookup that finds one, never touches the
\* transaction or the chain, and always ends.
C20_PollBoundedAndEnds ==
    /\ []PollWithinBudget
    /\ [][poll' # poll => UNCHANGED <<allowance, txCount, mempool, receipts>>]_vars
    /\ (pc = "polling") ~> (pc = "idle")

C20_Witness ==
    /\ poll.op = "getTxReceipt" /\ poll.outcome = "returned" /\ poll.ret = "receipt"
    /\ poll.maxRetries = 3 /\ poll.delay = 2
    /\ poll.i = 2 /\ poll.lookups = 3 /\ poll.slept = 4

\* The turns of the call c, in order, whose allowance check came out too low.
DeficitTurns(c) ==
    SelectSeq([i \in 1..Len(c.checks) |-> i], LAMBDA i : ~c.checks[i])

\* The raw amount an approval is to carry for the target t (in hundredths)
\* on the token tok: 2^256-1 at the model's width for -1 and for the
\* sentinel, t * 10^decimals cut to an integer otherwise.
ApprovalAmount(t, tok) ==
    IF t = (-1) * 100 \/ t = (2 ^ UintBits - 1) * 100
    THEN 2 ^ UintBits - 1
    ELSE (t * Pow10(DecimalsOnChain(toChecksumAddress(tok)))) \div 100

\* C21: when an enforcement finds the allowance too low, the approval it
\* produces carries 2^256-1 if the target is absent (-1) or the sentinel, and
\* the target times 10^decimals of that token, truncated, otherwise; it is
\* addressed to the given spender (the vault in the vault form and in the
\* batch), and what is sent is that approval.
C21_ApprovalAmountAndSpender ==
    call.op \in {"single", "batch"} =>
        /\ Len(call.approveCalls) <= Len(DeficitTurns(call))
        /\ \A k \in 1..Len(call.approveCalls) :
              LET i == DeficitTurns(call)[k]
              IN  /\ call.approveCalls[k].name = "approve"
                  /\ call.approveCalls[k].allowance =
                         ApprovalAmount(call.targets[i], call.tokens[i])
                  /\ call.approveCalls[k].spender = call.spender
                  /\ call.approveCalls[k].to = toChecksumAddress(call.tokens[i])
        /\ call.op = "batch" => call.spender = "VAULT"
        /\ Len(call.sent) <= Len(call.approveCalls)
        /\ \A k \in 1..Len(call.sent) : call.sent[k].fn = call.approveCalls[k]

C21_Witness ==
    /\ call.op = "batch" /\ call.outcome = "returned" /\ call.ret = "True"
    /\ call.tokens = <<1, 2>>
    /\ call.targets = <<TargetNone, 400>>
    /\ call.checks = <<FALSE, FALSE>>
    /\ Len(call.sent) = 2
    /\ call.sent[1].fn.allowance = INFINITE
    /\ call.sent[2].fn.allowance = 400
    /\ call.sent[2].fn.spender = "VAULT"

\* C22: every override an enforcement entry point accepts determines the
\* field of the approval transaction it builds, and nothing is asked of the
\* node or the oracle for an overridden field: the gas and the gas price of
\* a single enforcement, the first nonce of a batched one.
C22_OverridesReachTransaction ==
    /\ (call.op = "single" /\ call.gasEstimateOverride # NoOverride) =>
          /\ call.gasEstimates = 0
          /\ \A k \in 1..Len(call.built) : call.built[k].gas = call.gasEstimateOverride
    /\ (call.op = "single" /\ call.gasPriceGweiOverride # NoOverride) =>
          /\ call.invoked = <<>>
          /\ \A k \in 1..Len(call.built) :
                call.built[k].gasPriceGwei = call.gasPriceGweiOverride
    /\ (call.op = "batch" /\ call.nonceOverride # NoOverride) =>
          /\ call.nonceReads = 0
          /\ \A k \in 1..Len(call.built) :
                call.built[k].nonce = call.nonceOverride + k - 1

\* Ascending address order, without repetition.
Ascending(s) == \A i \in 1..(Len(s) - 1) : s[i] < s[i + 1]

\* The value vals gives for the address a: vals[k] of a key tokens[k] that
\* spells a.
GivenFor(d, vals, a, v) ==
    \E k \in 1..Len(d.tokens) : toChecksumAddress(d.tokens[k]) = a /\ vals[k] = v

\* Position by position, the create call's weights are the ones the
\* description gives for its tokens.
WeightsAligned ==
    (creation.op = "create" /\ creation.created
        /\ creation.fn.factory # "StablePoolFactory") =>
        /\ Len(creation.fn.weights) = Len(creation.fn.tokens)
        /\ \A i \in 1..Len(creation.fn.tokens) :
              GivenFor(creation.description, creation.description.weights,
                       creation.fn.tokens[i], creation.fn.weights[i])

\* Position by position, the joinPool call's raw amounts are the initial
\* balances the description gives for its tokens, at their decimals.
BalancesAligned ==
    creation.op = "join" =>
        /\ Len(creation.fn.maxAmountsIn) = Len(creation.fn.assets)
        /\ \A i \in 1..Len(creation.fn.assets) :
              \E v \in {creation.description.balances[k] :
                            k \in 1..Len(creation.description.balances)} :
                 /\ GivenFor(creation.description, creation.description.balances,
                             creation.fn.assets[i], v)
                 /\ creation.fn.maxAmountsIn[i] =
                       (v * Pow10(DecimalsOnChain(creation.fn.assets[i]))) \div 100

\* C23: in every create call and every joinPool call the emitted token list
\* is in ascending address order, and the weight (create) or raw initial
\* balance (joinPool) at each position is the one the description gives for
\* the token at that position, in whatever order the description lists its
\* tokens.
C23_PoolTokensCanonical ==
    /\ (creation.op = "create" /\ creation.created) => Ascending(creation.fn.tokens)
    /\ creation.op = "join" => Ascending(creation.fn.assets)
    /\ WeightsAligned
    /\ BalancesAligned
====
